---- MODULE Spec2Model ----
(***************************************************************************)
(* Boot orchestration of the hypervisor firmware (src/main.rs): the entry  *)
(* points rust64_start, main, the per-device closure handed to             *)
(* pci::with_devices, boot_from_device and the panic handler.              *)
(*                                                                         *)
(* The firmware is one sequential thread; pc is its position.  Every call  *)
(* into a collaborator (block, part, fat, loader, pe, efi, pci) is         *)
(* recorded in calls, every log! invocation in logged.  The result of a    *)
(* collaborator call is an input: it is chosen when the call is made.      *)
(***************************************************************************)
EXTENDS Integers, Sequences, FiniteSets, TLC

\* Longest PCI bus the model enumerates.
MaxDevices == 3

\* The vendor id mistaken for 0x8086.
VENDOR_ID_wrong_vendor == 6900 + 26002
\* const VIRTIO_PCI_VENDOR_ID: u16 = 0x1af4;
VIRTIO_PCI_VENDOR_ID == 6900
\* The device id off by one: 0x1041.
BLOCK_DEVICE_ID_off_by_one == 4162 - 1
\* const VIRTIO_PCI_BLOCK_DEVICE_ID: u16 = 0x1042;
VIRTIO_PCI_BLOCK_DEVICE_ID == 4162
\* let load_addr = 0x20_0000;
LOAD_ADDR == 2097152

\* Identities a PCI function on the bus may report: the virtio-blk pair, the
\* same vendor with another device id (0x1041), another vendor (0x8086) with
\* the same device id.
PciIds ==
    { [vendor |-> 6900,  device |-> 4162],
      [vendor |-> 6900,  device |-> 4161],
      [vendor |-> 32902, device |-> 4162] }

\* Sector counts device.get_capacity() may report after a successful init.
Capacities == {0, 2048}

\* Sector ranges (start, end) a partition table may give the EFI System
\* Partition.
PartitionRanges == { <<64, 1024>> }

\* What pe::Loader::load may return on success: (entry_addr, load_addr, size).
\* The loader reports the base it used, which need not be the one requested.
PeLoadInfos ==
    { <<2097152 + 4096, 2097152, 8192>>,
      <<4194304 + 4096, 4194304, 8192>> }

VARIABLES
    coreboot,   \* build feature "coreboot"
    logPanic,   \* build feature "log-panic"
    bus,        \* the PCI functions in bus-scan order
    pc,         \* position of the firmware's single thread
    idx,        \* with_devices: bus slot under examination (1-based)
    ret,        \* value the closure returned to with_devices
    load_info,  \* boot_from_device: (entry_addr, load_addr, size) after l.load
    panic_msg,  \* message of the panic! raised, "" when none
    bringup,    \* hardware bring-up steps executed, in order
    calls,      \* collaborator calls made, in order
    logged,     \* log! invocations made, in order
    port,       \* serial::PORT, the AtomicRefCell: "free" or "borrowed"
    logpc,      \* position of the thread inside the serial module
    log_site,   \* the log! invocation in progress (a LogSites record)
    frags,      \* write_str calls this invocation makes in all
    frag,       \* write_str calls of this invocation completed
    log_count,  \* log! invocations completed
    live,       \* bus slots whose VirtioBlockDevice exists (constructed, not dropped)
    cr0,        \* control register CR0, as the set of its bits that are 1
    cr4         \* control register CR4, as the set of its bits that are 1

vars == <<coreboot, logPanic, bus, pc, idx, ret, load_info, panic_msg,
          bringup, calls, logged, port, logpc, log_site, frags, frag,
          log_count, live, cr0, cr4>>

\* The control registers enable_sse works on.
cregs == <<cr0, cr4>>

\* The state of the serial module.
serial == <<port, logpc, log_site, frags, frag, log_count>>

\* No log! invocation in progress.
NoSite == [msg |-> "", pieces |-> 0, args |-> 0]

\* static PORT: AtomicRefCell<SerialPort> = AtomicRefCell::new(..): not borrowed.
SerialInit ==
    /\ port = "free"
    /\ logpc = "start"
    /\ log_site = NoSite
    /\ frags = 0
    /\ frag = 0
    /\ log_count = 0

\* A collaborator call on bus slot dev (0: not tied to a device).
Call(dev, op, ok, val) == [dev |-> dev, op |-> op, ok |-> ok, val |-> val]

\* A log! invocation made while bus slot dev was being attempted.
Log(dev, msg) == [dev |-> dev, msg |-> msg]

BusSeqs == UNION { [1..n -> PciIds] : n \in 0..MaxDevices }

\* The firmware's own state at entry; the control registers hold what the
\* platform left in them.
FirmwareInit ==
    /\ coreboot \in BOOLEAN
    /\ logPanic \in BOOLEAN
    /\ bus \in BusSeqs
    /\ pc = "rust64_start"
    /\ idx = 0
    /\ ret = FALSE
    /\ load_info = <<>>
    /\ panic_msg = ""
    /\ bringup = <<>>
    /\ calls = <<>>
    /\ logged = <<>>
    /\ SerialInit
    /\ live = {}

\* Entry in 64-bit mode: CR0 has PE, ET and PG, CR4 has PAE.
Init ==
    /\ FirmwareInit
    /\ cr0 = {0, 4, 31}
    /\ cr4 = {5}

build == <<coreboot, logPanic, bus>>

----------------------------------------------------------------------------
(* Entry points: rust64_start, both builds.                                *)

\* serial::PORT.borrow_mut().init();
serial_init ==
    /\ pc = "rust64_start"
    /\ bringup' = Append(bringup, "serial_init")
    /\ pc' = "enable_sse"
    /\ UNCHANGED <<build, cregs, serial, live, idx, ret, load_info, panic_msg, calls, logged>>

\* Bit positions of the flags enable_sse names.
MONITOR_COPROCESSOR == 1
EMULATE_COPROCESSOR == 2
OSFXSR == 9
OSXMMEXCPT_ENABLE == 10

\* The bits Cr0Flags and Cr4Flags give a name to; the other bits of a register
\* are reserved to the flags types.
Cr0Flags_all == {0, 1, 2, 3, 4, 5, 16, 18, 29, 30, 31}
Cr4Flags_all == (0..11) \cup {13, 14, 16, 17, 18, 20, 21, 22}

\* Cr0::read() / Cr4::read(): the raw register truncated to the named flags.
Cr0_read(raw) == raw \cap Cr0Flags_all
Cr4_read(raw) == raw \cap Cr4Flags_all

\* Cr0::write(flags) / Cr4::write(flags): the reserved bits of the register
\* as it stands, with the named flags replaced by the ones given.
Cr0_write(raw, flags) == (raw \ Cr0Flags_all) \cup flags
Cr4_write(raw, flags) == (raw \ Cr4Flags_all) \cup flags

\* enable_sse's CR0 half with the remove of EMULATE_COPROCESSOR left out.
enable_sse_cr0_keeps_emulation(raw) ==
    Cr0_write(raw, Cr0_read(raw) \cup {MONITOR_COPROCESSOR})

\* let mut cr0 = Cr0::read(); cr0.remove(EMULATE_COPROCESSOR);
\* cr0.insert(MONITOR_COPROCESSOR); Cr0::write(cr0): the new raw CR0.
enable_sse_cr0(raw) ==
    Cr0_write(raw, (Cr0_read(raw) \ {EMULATE_COPROCESSOR})
                       \cup {MONITOR_COPROCESSOR})

\* let mut cr4 = Cr4::read(); cr4.insert(OSFXSR);
\* cr4.insert(OSXMMEXCPT_ENABLE); Cr4::write(cr4): the new raw CR4.
enable_sse_cr4(raw) ==
    Cr4_write(raw, (Cr4_read(raw) \cup {OSFXSR}) \cup {OSXMMEXCPT_ENABLE})

\* rust64_start going from the serial port straight to paging::setup().
enable_sse_skipped ==
    /\ pc = "enable_sse"
    /\ pc' = "paging_setup"
    /\ UNCHANGED <<build, cregs, serial, live, idx, ret, load_info, panic_msg,
                   bringup, calls, logged>>

\* enable_sse();
enable_sse ==
    /\ pc = "enable_sse"
    /\ cr0' = enable_sse_cr0(cr0)
    /\ cr4' = enable_sse_cr4(cr4)
    /\ bringup' = Append(bringup, "enable_sse")
    /\ pc' = "paging_setup"
    /\ UNCHANGED <<build, serial, live, idx, ret, load_info, panic_msg, calls, logged>>

\* paging::setup();
paging_setup ==
    /\ pc = "paging_setup"
    /\ bringup' = Append(bringup, "paging_setup")
    /\ pc' = IF coreboot THEN "start_info" ELSE "main"
    /\ UNCHANGED <<build, cregs, serial, live, idx, ret, load_info, panic_msg, calls, logged>>

\* let info = coreboot::StartInfo::default();   (feature "coreboot" only)
start_info_default ==
    /\ pc = "start_info"
    /\ bringup' = Append(bringup, "StartInfo::default")
    /\ pc' = "main"
    /\ UNCHANGED <<build, cregs, serial, live, idx, ret, load_info, panic_msg, calls, logged>>

----------------------------------------------------------------------------
(* main: banner, bus dump, enumeration, final panic.                       *)

\* log!("\nBooting with {}", info.name());
main_banner ==
    /\ pc = "main"
    /\ logged' = Append(logged, Log(0, "Booting with"))
    /\ pc' = "print_bus"
    /\ UNCHANGED <<build, cregs, serial, live, idx, ret, load_info, panic_msg, bringup, calls>>

\* pci::print_bus();  then pci::with_devices(...) is entered at slot 1.
print_bus ==
    /\ pc = "print_bus"
    /\ calls' = Append(calls, Call(0, "print_bus", TRUE, <<>>))
    /\ idx' = 1
    /\ pc' = "with_devices"
    /\ UNCHANGED <<build, cregs, serial, live, ret, load_info, panic_msg, bringup, logged>>

\* The identity test with_devices applies to one bus slot.
Matches(id, vendor_id, device_id) ==
    id.vendor = vendor_id /\ id.device = device_id

\* pci::with_devices(VIRTIO_PCI_VENDOR_ID, VIRTIO_PCI_BLOCK_DEVICE_ID, closure):
\* one step of the scan.  Past the last slot it returns to main.
with_devices ==
    /\ pc = "with_devices"
    /\ IF idx > Len(bus)
         THEN pc' = "main_panic" /\ idx' = idx
         ELSE IF Matches(bus[idx], VIRTIO_PCI_VENDOR_ID, VIRTIO_PCI_BLOCK_DEVICE_ID)
                THEN pc' = "closure" /\ idx' = idx
                ELSE pc' = "with_devices" /\ idx' = idx + 1
    /\ UNCHANGED <<build, cregs, serial, live, ret, load_info, panic_msg, bringup, calls, logged>>

\* The closure: a fresh transport and block device for this PCI function,
\* then boot_from_device(&mut device, info).
closure ==
    /\ pc = "closure"
    /\ calls' = calls \o << Call(idx, "VirtioPciTransport::new", TRUE, <<>>),
                            Call(idx, "VirtioBlockDevice::new", TRUE, <<>>) >>
    /\ load_info' = <<>>
    /\ live' = live \cup {idx}
    /\ pc' = "init"
    /\ UNCHANGED <<build, cregs, serial, idx, ret, panic_msg, bringup, logged>>

\* closure_return with the device kept alive past the closure.
closure_return_keeps_device ==
    /\ pc = "closure_ret"
    /\ pc' = "scan_ret"
    /\ UNCHANGED <<build, cregs, serial, live, idx, ret, load_info, panic_msg,
                   bringup, calls, logged>>

\* The end of the closure: boot_from_device's value is the closure's, and
\* its locals device and pci_transport are dropped.
closure_return ==
    /\ pc = "closure_ret"
    /\ live' = live \ {idx}
    /\ pc' = "scan_ret"
    /\ UNCHANGED <<build, cregs, serial, idx, ret, load_info, panic_msg, bringup,
                   calls, logged>>

\* with_devices after the closure returned: true ends the scan, false moves
\* to the next slot.
with_devices_ret ==
    /\ pc = "scan_ret"
    /\ IF ret
         THEN pc' = "main_panic" /\ idx' = idx
         ELSE pc' = "with_devices" /\ idx' = idx + 1
    /\ UNCHANGED <<build, cregs, serial, live, ret, load_info, panic_msg, bringup, calls, logged>>

----------------------------------------------------------------------------
(* boot_from_device, one action per collaborator call.                     *)

\* Abandon reporting success to the closure's caller.
Abandon_returns_true(msgs) ==
    /\ logged' = logged \o [i \in 1..Len(msgs) |-> Log(idx, msgs[i])]
    /\ ret' = TRUE
    /\ pc' = "closure_ret"

\* log!(..) for each of msgs; return false;
Abandon(msgs) ==
    /\ logged' = logged \o [i \in 1..Len(msgs) |-> Log(idx, msgs[i])]
    /\ ret' = FALSE
    /\ pc' = "closure_ret"

\* log!(..) for each of msgs; and on to the statement at next.
Proceed(msgs, next) ==
    /\ logged' = logged \o [i \in 1..Len(msgs) |-> Log(idx, msgs[i])]
    /\ ret' = ret
    /\ pc' = next

\* init_arm with the return missing from the Err arm.
init_arm_no_return(ok) ==
    IF ok
      THEN Proceed(<<"Virtio block device configured">>, "find_efi_partition")
      ELSE Proceed(<<"Error configuring block device",
                     "Virtio block device configured">>, "find_efi_partition")

\* if let Err(err) = device.init() { log!; return false; }  log!(capacity)
init_arm(ok) ==
    IF ok
      THEN Proceed(<<"Virtio block device configured">>, "find_efi_partition")
      ELSE Abandon(<<"Error configuring block device">>)

device_init ==
    /\ pc = "init"
    /\ \/ \E cap \in Capacities :
            /\ calls' = calls \o << Call(idx, "init", TRUE, <<>>),
                                    Call(idx, "get_capacity", TRUE, <<cap>>) >>
            /\ init_arm(TRUE)
       \/ /\ calls' = Append(calls, Call(idx, "init", FALSE, <<>>))
          /\ init_arm(FALSE)
    /\ UNCHANGED <<build, cregs, serial, live, idx, load_info, panic_msg, bringup>>

\* The capacity the device under attempt reported (0 when it never did).
DeviceCapacity ==
    IF calls # <<>> /\ calls[Len(calls)].op = "get_capacity"
      THEN calls[Len(calls)].val[1]
      ELSE 0

\* part::find_efi_partition: the EFI System Partitions (start, end) that a
\* table on a device of the given capacity can describe; none fits in an
\* empty device.
PartitionsWithin(capacity) ==
    { r \in PartitionRanges : r[1] < r[2] /\ r[2] < capacity }

\* part_arm with the return missing from the Err arm.
part_arm_no_return(ok) ==
    IF ok
      THEN Proceed(<<"Found EFI partition">>, "fs_init")
      ELSE Proceed(<<"Failed to find EFI partition", "Found EFI partition">>,
                   "fs_init")

\* match part::find_efi_partition(device) { Ok(p) => p, Err(err) => {...} }
part_arm(ok) ==
    IF ok
      THEN Proceed(<<"Found EFI partition">>, "fs_init")
      ELSE Abandon(<<"Failed to find EFI partition">>)

find_efi_partition ==
    /\ pc = "find_efi_partition"
    /\ \/ \E r \in PartitionsWithin(DeviceCapacity) :
            /\ calls' = Append(calls, Call(idx, "find_efi_partition", TRUE, r))
            /\ part_arm(TRUE)
       \/ /\ calls' = Append(calls, Call(idx, "find_efi_partition", FALSE, <<>>))
          /\ part_arm(FALSE)
    /\ UNCHANGED <<build, cregs, serial, live, idx, load_info, panic_msg, bringup>>

\* fs_arm with the return missing from the Err arm.
fs_arm_no_return(ok) ==
    IF ok
      THEN Proceed(<<"Filesystem ready">>, "load_default_entry")
      ELSE Proceed(<<"Failed to create filesystem", "Filesystem ready">>,
                   "load_default_entry")

\* if let Err(err) = f.init() { log!; return false; }  log!("Filesystem ready")
fs_arm(ok) ==
    IF ok
      THEN Proceed(<<"Filesystem ready">>, "load_default_entry")
      ELSE Abandon(<<"Failed to create filesystem">>)

\* let mut f = fat::Filesystem::new(device, start, end);  f.init()
fs_init ==
    /\ pc = "fs_init"
    /\ \E ok \in BOOLEAN :
         /\ calls' = calls \o << Call(idx, "Filesystem::new", TRUE,
                                      calls[Len(calls)].val),
                                 Call(idx, "Filesystem::init", ok, <<>>) >>
         /\ fs_arm(ok)
    /\ UNCHANGED <<build, cregs, serial, live, idx, load_info, panic_msg, bringup>>

\* default_entry_arm treating the Err arm like every other stage's.
default_entry_arm_abandons(ok) ==
    IF ok
      THEN Proceed(<<"Jumping to kernel">>, "kernel_boot")
      ELSE Abandon(<<"Error loading default entry">>)

\* default_entry_arm with the Ok arm falling out of the match instead of
\* booting and returning.
default_entry_arm_falls_through(ok) ==
    IF ok
      THEN Proceed(<<"Jumping to kernel", "Using EFI boot.">>, "open")
      ELSE Proceed(<<"Error loading default entry", "Using EFI boot.">>, "open")

\* match loader::load_default_entry(&f, info) { Ok(kernel) => ..., Err => log! }
\* and, past the match, log!("Using EFI boot.");
default_entry_arm(ok) ==
    IF ok
      THEN Proceed(<<"Jumping to kernel">>, "kernel_boot")
      ELSE Proceed(<<"Error loading default entry", "Using EFI boot.">>, "open")

load_default_entry ==
    /\ pc = "load_default_entry"
    /\ \E ok \in BOOLEAN :
         /\ calls' = Append(calls, Call(idx, "load_default_entry", ok, <<>>))
         /\ default_entry_arm(ok)
    /\ UNCHANGED <<build, cregs, serial, live, idx, load_info, panic_msg, bringup>>

\* kernel.boot();  control is handed to the kernel image.
kernel_boot ==
    /\ pc = "kernel_boot"
    /\ calls' = Append(calls, Call(idx, "kernel.boot", TRUE, <<>>))
    /\ pc' = "in_kernel"
    /\ UNCHANGED <<build, cregs, serial, live, idx, ret, load_info, panic_msg, bringup, logged>>

\* kernel_boot_return reporting the attempt as abandoned.
kernel_boot_return_false ==
    /\ pc = "in_kernel"
    /\ ret' = FALSE
    /\ pc' = "closure_ret"
    /\ UNCHANGED <<build, cregs, serial, live, idx, load_info, panic_msg, bringup, calls, logged>>

\* return true;   reached only if the kernel image hands control back.
kernel_boot_return ==
    /\ pc = "in_kernel"
    /\ ret' = TRUE
    /\ pc' = "closure_ret"
    /\ UNCHANGED <<build, cregs, serial, live, idx, load_info, panic_msg, bringup, calls, logged>>

\* open_arm with the return missing from the Err arm.
open_arm_no_return(ok) ==
    IF ok
      THEN Proceed(<<"Found bootloader (BOOTX64.EFI)">>, "pe_load")
      ELSE Proceed(<<"Failed to load default EFI binary",
                     "Found bootloader (BOOTX64.EFI)">>, "pe_load")

\* match f.open("/EFI/BOOT/BOOTX64 EFI") { Ok(file) => file, Err(err) => {...} }
open_arm(ok) ==
    IF ok
      THEN Proceed(<<"Found bootloader (BOOTX64.EFI)">>, "pe_load")
      ELSE Abandon(<<"Failed to load default EFI binary">>)

fs_open ==
    /\ pc = "open"
    /\ \E ok \in BOOLEAN :
         /\ calls' = Append(calls, Call(idx, "open", ok, <<>>))
         /\ open_arm(ok)
    /\ UNCHANGED <<build, cregs, serial, live, idx, load_info, panic_msg, bringup>>

\* load_arm with the return missing from the Err arm.
load_arm_no_return(ok) ==
    IF ok
      THEN Proceed(<<"Executable loaded">>, "efi_exec")
      ELSE Proceed(<<"Error loading executable", "Executable loaded">>,
                   "efi_exec")

\* match l.load(load_addr) { Ok(load_info) => load_info, Err(err) => {...} }
load_arm(ok) ==
    IF ok
      THEN Proceed(<<"Executable loaded">>, "efi_exec")
      ELSE Abandon(<<"Error loading executable">>)

\* load_binding keeping the requested load_addr instead of shadowing it.
load_binding_requested_base(requested, returned) == requested

\* let (entry_addr, load_addr, size) = ...: the triple the loader returned.
load_binding(requested, returned) == returned

\* let mut l = pe::Loader::new(&mut file);  l.load(load_addr)
pe_load ==
    /\ pc = "pe_load"
    /\ \/ \E info \in PeLoadInfos :
            /\ calls' = calls \o << Call(idx, "Loader::new", TRUE, <<>>),
                                    Call(idx, "load", TRUE, <<LOAD_ADDR>> \o info) >>
            /\ load_info' = load_binding(<<info[1], LOAD_ADDR, info[3]>>, info)
            /\ load_arm(TRUE)
       \/ /\ calls' = calls \o << Call(idx, "Loader::new", TRUE, <<>>),
                                  Call(idx, "load", FALSE, <<LOAD_ADDR>>) >>
          /\ load_info' = load_info
          /\ load_arm(FALSE)
    /\ UNCHANGED <<build, cregs, serial, live, idx, panic_msg, bringup>>

\* efi::efi_exec(entry_addr, load_addr, size, info, &f, device);
\* control is handed to the loaded image.
efi_exec ==
    /\ pc = "efi_exec"
    /\ calls' = Append(calls, Call(idx, "efi_exec", TRUE, load_info))
    /\ pc' = "in_efi"
    /\ UNCHANGED <<build, cregs, serial, live, idx, ret, load_info, panic_msg, bringup, logged>>

\* efi_exec_return reporting the attempt as abandoned.
efi_exec_return_false ==
    /\ pc = "in_efi"
    /\ ret' = FALSE
    /\ pc' = "closure_ret"
    /\ UNCHANGED <<build, cregs, serial, live, idx, load_info, panic_msg, bringup, calls, logged>>

\* true   reached only if the image hands control back to efi_exec's caller.
efi_exec_return ==
    /\ pc = "in_efi"
    /\ ret' = TRUE
    /\ pc' = "closure_ret"
    /\ UNCHANGED <<build, cregs, serial, live, idx, load_info, panic_msg, bringup, calls, logged>>

----------------------------------------------------------------------------
(* The end of main and the panic handler.                                  *)

\* panic!("Unable to boot from any virtio-blk device")
main_panic ==
    /\ pc = "main_panic"
    /\ panic_msg' = "Unable to boot from any virtio-blk device"
    /\ pc' = "panic"
    /\ UNCHANGED <<build, cregs, serial, live, idx, ret, load_info, bringup, calls, logged>>

\* panic_log of the build without log-panic, whatever the feature.
panic_log_silent(log_panic, msg) == << >>

\* panic_log of the build with log-panic, whatever the feature.
panic_log_unconditional(log_panic, msg) == << Log(0, "PANIC: " \o msg) >>

\* What the installed #[panic_handler] logs: log!("PANIC: {}", info) with
\* feature "log-panic", nothing without it.
panic_log(log_panic, msg) ==
    IF log_panic THEN << Log(0, "PANIC: " \o msg) >> ELSE << >>

\* fn panic(info: &PanicInfo) -> !   (either build)
panic ==
    /\ pc = "panic"
    /\ logged' = logged \o panic_log(logPanic, panic_msg)
    /\ pc' = "halt"
    /\ UNCHANGED <<build, cregs, serial, live, idx, ret, load_info, panic_msg, bringup, calls>>

\* loop { hlt() }  /  loop {}
halt ==
    /\ pc = "halt"
    /\ UNCHANGED vars

----------------------------------------------------------------------------
Next ==
    \/ serial_init \/ enable_sse \/ paging_setup \/ start_info_default
    \/ main_banner \/ print_bus
    \/ with_devices \/ closure \/ closure_return \/ with_devices_ret
    \/ device_init \/ find_efi_partition \/ fs_init \/ load_default_entry
    \/ kernel_boot \/ kernel_boot_return
    \/ fs_open \/ pe_load \/ efi_exec \/ efi_exec_return
    \/ main_panic \/ panic \/ halt

Spec == Init /\ [][Next]_vars

\* The firmware's own steps: the CPU keeps executing them.  A booted image
\* handing control back (kernel_boot_return, efi_exec_return) is not owed.
Firmware ==
    \/ serial_init \/ enable_sse \/ paging_setup \/ start_info_default
    \/ main_banner \/ print_bus
    \/ with_devices \/ closure \/ closure_return \/ with_devices_ret
    \/ device_init \/ find_efi_partition \/ fs_init \/ load_default_entry
    \/ kernel_boot \/ fs_open \/ pe_load \/ efi_exec
    \/ main_panic \/ panic

FairSpec == Spec /\ WF_vars(Firmware)

----------------------------------------------------------------------------
(* Reading the history.                                                    *)

Slots == 1..MaxDevices

\* Calls i of the history that are on slot d with operation op.
Called(d, op) ==
    \E i \in 1..Len(calls) : calls[i].dev = d /\ calls[i].op = op

CalledWith(d, op, ok) ==
    \E i \in 1..Len(calls) :
        calls[i].dev = d /\ calls[i].op = op /\ calls[i].ok = ok

LoggedOn(d, msg) ==
    \E i \in 1..Len(logged) : logged[i] = Log(d, msg)

\* Slot d holds the identity main asks with_devices for, written out.
IsVirtioBlk(d) ==
    d \in 1..Len(bus) /\ bus[d].vendor = 6900 /\ bus[d].device = 4162

\* A control transfer was invoked on slot d.
Transferred(d) == Called(d, "kernel.boot") \/ Called(d, "efi_exec")

\* boot_from_device returned false for slot d, or enumeration has moved past d.
AbandonedNow(d) == idx = d /\ pc \in {"closure_ret", "scan_ret"} /\ ret = FALSE
Abandoned(d) == AbandonedNow(d) \/ (idx > d /\ ~Transferred(d))

FallbackOps == {"open", "Loader::new", "load", "efi_exec"}

----------------------------------------------------------------------------
\* C1: once load_default_entry returned Ok on a device, the only thing
\* boot_from_device does next on it is kernel.boot(): the call is made (it is
\* always reached), and Filesystem.open, pe::Loader.load and efi_exec are
\* never called for that device.
C1_DefaultEntryBoots ==
    /\ [](\A d \in Slots :
            CalledWith(d, "load_default_entry", TRUE) =>
                /\ \A op \in FallbackOps : ~Called(d, op)
                /\ Called(d, "kernel.boot") \/ (idx = d /\ pc = "kernel_boot"))
    /\ \A d \in Slots :
          CalledWith(d, "load_default_entry", TRUE) ~> Called(d, "kernel.boot")

C1_Witness ==
    \E d \in Slots :
        /\ CalledWith(d, "init", TRUE)
        /\ CalledWith(d, "find_efi_partition", TRUE)
        /\ CalledWith(d, "Filesystem::init", TRUE)
        /\ CalledWith(d, "load_default_entry", TRUE)
        /\ Called(d, "kernel.boot")

----------------------------------------------------------------------------
\* Slots are visited in bus-scan order: the history never goes back to an
\* earlier slot.
InScanOrder ==
    \A i, j \in 1..Len(calls) : i < j => calls[i].dev <= calls[j].dev

\* with_devices has returned to main.
EnumerationOver == pc \in {"main_panic", "panic", "halt"}

\* C2: enumeration is in bus-scan order and short-circuiting.  Once a control
\* transfer was invoked on a device, no later slot is ever constructed,
\* initialized or probed; every matching slot before the current one was
\* attempted, so an abandoned attempt is followed by the next match; and
\* enumeration ends only past the last slot or on the device that
\* transferred control.
C2_ScanOrderShortCircuit ==
    /\ InScanOrder
    /\ \A d \in Slots :
          Transferred(d) => \A i \in 1..Len(calls) : calls[i].dev <= d
    /\ \A d \in 1..Len(bus) :
          (IsVirtioBlk(d) /\ (d < idx \/ (d = idx /\ EnumerationOver)))
              => Called(d, "init")
    /\ \A d \in 1..Len(bus) : Abandoned(d) /\ EnumerationOver => idx > d
    /\ EnumerationOver => (idx > Len(bus) \/ Transferred(idx))

\* An abandoned first match, a second match that transferred control and
\* handed it back, and a third match that was never touched.
C2_Witness ==
    /\ pc = "halt"
    /\ \E d, e, f \in 1..Len(bus) :
          /\ d < e /\ e < f
          /\ IsVirtioBlk(d) /\ IsVirtioBlk(e) /\ IsVirtioBlk(f)
          /\ Called(d, "init") /\ ~Transferred(d)
          /\ Transferred(e)
          /\ \A i \in 1..Len(calls) : calls[i].dev # f

----------------------------------------------------------------------------
\* The log line boot_from_device writes when a stage fails.
ErrMsg(op) ==
    CASE op = "init"               -> "Error configuring block device"
      [] op = "find_efi_partition" -> "Failed to find EFI partition"
      [] op = "Filesystem::init"   -> "Failed to create filesystem"
      [] op = "load_default_entry" -> "Error loading default entry"
      [] op = "open"               -> "Failed to load default EFI binary"
      [] op = "load"               -> "Error loading executable"

\* The failed call calls[i] was logged and its device abandoned: nothing more
\* is called on the device, boot_from_device returns false and with_devices
\* moves on to the next slot.
LoggedAndAbandoned(i) ==
    /\ LoggedOn(calls[i].dev, ErrMsg(calls[i].op))
    /\ \A j \in 1..Len(calls) : j > i => calls[j].dev > calls[i].dev
    /\ Abandoned(calls[i].dev)

\* C3 as stated: every failed stage, default-entry-not-found included, is
\* logged and the device abandoned.
C3_EveryFailureAbandons ==
    \A i \in 1..Len(calls) : ~calls[i].ok => LoggedAndAbandoned(i)

\* C3 amended: every failed stage other than the default-entry loader
\* (device init, partition find, filesystem init, fallback open, PE load) is
\* logged and the device abandoned, enumeration continuing with the next match.
C3_StageFailureAbandons ==
    \A i \in 1..Len(calls) :
        (~calls[i].ok /\ calls[i].op # "load_default_entry")
            => LoggedAndAbandoned(i)

\* A device abandoned at the PE load and the next match already being tried.
C3_Witness ==
    \E i, j \in 1..Len(calls) :
        /\ calls[i].op = "load" /\ ~calls[i].ok
        /\ calls[j].op = "init" /\ calls[j].dev > calls[i].dev

----------------------------------------------------------------------------
\* C4: a failed load_default_entry is logged and does not abandon the device:
\* the next call on the same device is the open of the fallback path.
C4_DefaultEntryFailureFallsBack ==
    \A i \in 1..Len(calls) :
        (calls[i].op = "load_default_entry" /\ ~calls[i].ok) =>
            /\ LoggedOn(calls[i].dev, "Error loading default entry")
            /\ ~(AbandonedNow(calls[i].dev) /\ i = Len(calls))
            /\ IF i = Len(calls)
                 THEN pc = "open" /\ idx = calls[i].dev
                 ELSE calls[i + 1].op = "open" /\ calls[i + 1].dev = calls[i].dev

C4_Witness ==
    \E i \in 1..Len(calls) :
        /\ calls[i].op = "load_default_entry" /\ ~calls[i].ok
        /\ CalledWith(calls[i].dev, "Filesystem::init", TRUE)
        /\ i < Len(calls) /\ calls[i + 1].op = "open"

----------------------------------------------------------------------------
\* C5: after a successful pe::Loader.load the next call on the device is
\* efi_exec (it is always reached), with exactly the (entry, base, size) the
\* loader returned; and once efi_exec was called on a device, the attempt is
\* never reported as abandoned: boot_from_device does not return false and
\* with_devices never moves past the device.
C5_EfiExecGetsLoadedTriple ==
    /\ [](\A i \in 1..Len(calls) :
            /\ (calls[i].op = "load" /\ calls[i].ok) =>
                  IF i = Len(calls)
                    THEN pc = "efi_exec" /\ idx = calls[i].dev
                    ELSE /\ calls[i + 1].op = "efi_exec"
                         /\ calls[i + 1].dev = calls[i].dev
                         /\ calls[i + 1].val = Tail(calls[i].val)
            /\ calls[i].op = "efi_exec" =>
                  /\ i > 1 /\ calls[i - 1].op = "load" /\ calls[i - 1].ok
                  /\ calls[i - 1].dev = calls[i].dev
                  /\ idx = calls[i].dev
                  /\ ~AbandonedNow(calls[i].dev)
                  /\ pc = "closure_ret" => ret = TRUE)
    /\ \A d \in Slots : CalledWith(d, "load", TRUE) ~> Called(d, "efi_exec")

\* The mounted filesystem had no default entry, the loader placed the image
\* at a base other than the requested one, and efi_exec was called with it.
C5_Witness ==
    \E i \in 1..Len(calls) :
        /\ calls[i].op = "efi_exec"
        /\ calls[i].val[2] # LOAD_ADDR
        /\ CalledWith(calls[i].dev, "Filesystem::init", TRUE)
        /\ CalledWith(calls[i].dev, "load_default_entry", FALSE)
        /\ pc = "closure_ret"

----------------------------------------------------------------------------
\* C6: when BlockDevice.init fails on a device, the attempt is abandoned and
\* nothing but the construction of the transport and the device and the init
\* call itself is ever called for that device.
C6_InitFailureShortCircuits ==
    \A d \in Slots :
        CalledWith(d, "init", FALSE) =>
            /\ Abandoned(d)
            /\ \A i \in 1..Len(calls) :
                  calls[i].dev = d =>
                      calls[i].op \in {"VirtioPciTransport::new",
                                       "VirtioBlockDevice::new", "init"}

C6_Witness ==
    \E d \in Slots : CalledWith(d, "init", FALSE) /\ idx > d /\ pc = "halt"

----------------------------------------------------------------------------
FatalMsg == "Unable to boot from any virtio-blk device"

\* with_devices ran past the last slot: every match was abandoned.
Exhausted == idx > Len(bus)

\* Positions inside rust64_start, the caller of main.
EntryPcs == {"rust64_start", "enable_sse", "paging_setup", "start_info"}

\* C7 as stated: after exhaustion the halt is reached with the fatal message
\* logged.
C7_FatalMessageLogged ==
    (pc = "halt" /\ Exhausted) => LoggedOn(0, "PANIC: " \o FatalMsg)

\* C7 amended: when enumeration exhausts all matches (or there is none), main
\* panics with the fatal message; the panic handler logs it exactly when the
\* build has the log-panic feature, as the last line logged; the halt is
\* then reached and never left, and main never returns into rust64_start.
C7_ExhaustionHalts ==
    /\ []((Exhausted /\ pc \in {"panic", "halt"}) => panic_msg = FatalMsg)
    /\ []((Exhausted /\ pc = "halt") =>
            /\ logPanic <=> LoggedOn(0, "PANIC: " \o FatalMsg)
            /\ logPanic => logged[Len(logged)] = Log(0, "PANIC: " \o FatalMsg))
    /\ (Exhausted ~> pc = "halt")
    /\ [][pc = "halt" => pc' = "halt"]_vars
    /\ [][pc \notin EntryPcs => pc' \notin EntryPcs]_vars

\* Two matches, both abandoned, and the halt reached with the message logged.
C7_Witness ==
    /\ pc = "halt" /\ Exhausted /\ logPanic
    /\ LoggedOn(0, "PANIC: " \o FatalMsg)
    /\ \E d, e \in 1..Len(bus) : d < e /\ Called(d, "init") /\ Called(e, "init")

----------------------------------------------------------------------------
\* No slot of the bus reports vendor 0x1af4 with device 0x1042.
NoMatch == \A d \in 1..Len(bus) : ~IsVirtioBlk(d)

\* C8: with no matching PCI device the only collaborator call ever made is
\* the bus dump (no transport, BlockDevice, partition finder, Filesystem,
\* loader or efi_exec call), and the final halt is reached.
C8_NoMatchNoCalls ==
    /\ [](NoMatch => \A i \in 1..Len(calls) :
                        calls[i].dev = 0 /\ calls[i].op = "print_bus")
    /\ (NoMatch ~> (pc = "halt" /\ panic_msg = FatalMsg))

\* A bus of two functions, neither a virtio-blk device, scanned to the halt.
C8_Witness ==
    /\ NoMatch /\ Len(bus) >= 2 /\ pc = "halt"
    /\ Len(calls) = 1

----------------------------------------------------------------------------
\* Positions inside the closure and boot_from_device.
DevicePcs ==
    {"closure", "init", "find_efi_partition", "fs_init", "load_default_entry",
     "kernel_boot", "in_kernel", "open", "pe_load", "efi_exec", "in_efi",
     "closure_ret"}

\* C9: the closure and boot_from_device run only on slots whose identity is
\* vendor 0x1af4 / device 0x1042; no call is ever made for any other slot.
C9_OnlyVirtioBlkAttempted ==
    /\ pc \in DevicePcs => IsVirtioBlk(idx)
    /\ \A i \in 1..Len(calls) : calls[i].dev # 0 => IsVirtioBlk(calls[i].dev)

\* A non-matching slot scanned before a match that was then attempted.
C9_Witness ==
    \E d, e \in 1..Len(bus) :
        /\ d < e /\ ~IsVirtioBlk(d) /\ IsVirtioBlk(e)
        /\ Called(e, "init")
        /\ \A i \in 1..Len(calls) : calls[i].dev # d

----------------------------------------------------------------------------
\* C10: when the fallback file was opened but pe::Loader.load fails on it, the
\* failure is logged, the device is abandoned and efi_exec is never called
\* for it.
C10_PeFailureAbandons ==
    \A i \in 1..Len(calls) :
        (calls[i].op = "load" /\ ~calls[i].ok) =>
            /\ CalledWith(calls[i].dev, "open", TRUE)
            /\ LoggedAndAbandoned(i)
            /\ ~Called(calls[i].dev, "efi_exec")
            /\ ~(idx = calls[i].dev /\ pc \in {"efi_exec", "in_efi"})

C10_Witness ==
    \E i \in 1..Len(calls) :
        /\ calls[i].op = "load" /\ ~calls[i].ok
        /\ CalledWith(calls[i].dev, "open", TRUE)
        /\ AbandonedNow(calls[i].dev)

----------------------------------------------------------------------------
\* C11: a device that initialized and reports zero sectors makes the
\* partition finder fail, and boot_from_device then abandons it: the failure
\* is logged, no Filesystem is constructed and no loader or efi_exec call is
\* made for the device.
C11_ZeroCapacityAbandons ==
    \A i \in 1..Len(calls) :
        (calls[i].op = "get_capacity" /\ calls[i].val = <<0>>) =>
            LET d == calls[i].dev IN
            /\ calls[i - 1] = Call(d, "init", TRUE, <<>>)
            /\ IF i = Len(calls)
                 THEN pc = "find_efi_partition" /\ idx = d
                 ELSE /\ i + 1 = Len(calls) \/ calls[i + 2].dev > d
                      /\ calls[i + 1] = Call(d, "find_efi_partition", FALSE, <<>>)
                      /\ LoggedAndAbandoned(i + 1)
            /\ \A op \in {"Filesystem::new", "Filesystem::init",
                          "load_default_entry", "kernel.boot"} \cup FallbackOps :
                  ~Called(d, op)

\* A zero-sector device abandoned at the partition finder, the scan moved on.
C11_Witness ==
    \E i \in 1..Len(calls) :
        /\ calls[i].op = "get_capacity" /\ calls[i].val = <<0>>
        /\ CalledWith(calls[i].dev, "find_efi_partition", FALSE)
        /\ idx > calls[i].dev

----------------------------------------------------------------------------
\* The control transfers invoked so far, as positions of the history.
Transfers ==
    { i \in 1..Len(calls) : calls[i].op \in {"kernel.boot", "efi_exec"} }

\* C12: at most one control transfer is invoked in the lifetime of the
\* process, and on no device do both strategies succeed: a default entry
\* that resolved and a PE load that succeeded never occur on the same device.
C12_AtMostOneTransfer ==
    /\ Cardinality(Transfers) <= 1
    /\ \A d \in Slots :
          ~(CalledWith(d, "load_default_entry", TRUE) /\ CalledWith(d, "load", TRUE))
    /\ \A d \in Slots : ~(Called(d, "kernel.boot") /\ Called(d, "efi_exec"))

\* The fallback booted the first of two matches and handed control back; the
\* second match was left alone.
C12_Witness ==
    /\ pc = "halt"
    /\ \E d, e \in 1..Len(bus) :
          /\ d < e /\ IsVirtioBlk(d) /\ IsVirtioBlk(e)
          /\ CalledWith(d, "load_default_entry", FALSE)
          /\ Called(d, "efi_exec")
          /\ Cardinality(Transfers) = 1

----------------------------------------------------------------------------
\* The steps of rust64_start before main, in the order the claim gives them.
BringUpOrder ==
    <<"serial_init", "enable_sse", "paging_setup">>
        \o (IF coreboot THEN <<"StartInfo::default">> ELSE <<>>)

\* C13: in both builds rust64_start initializes the logging transport, then
\* enables SSE, then sets up paging, then (coreboot) constructs the start
\* info, and only then calls main: each step runs exactly once, in that
\* order, and all of them are done before main logs or calls anything.
C13_BringUpBeforeMain ==
    /\ Len(bringup) <= Len(BringUpOrder)
    /\ bringup = SubSeq(BringUpOrder, 1, Len(bringup))
    /\ (pc \notin EntryPcs \/ calls # <<>> \/ logged # <<>>)
          => bringup = BringUpOrder
    /\ pc = "start_info" => coreboot

\* The coreboot build, main entered and its banner logged.
C13_Witness ==
    /\ coreboot /\ pc = "print_bus" /\ logged # <<>>
    /\ bringup = <<"serial_init", "enable_sse", "paging_setup",
                   "StartInfo::default">>

----------------------------------------------------------------------------
(* The serial module (src/serial.rs): PORT and the log! macro, one action  *)
(* per borrow and per release of the cell.  log! is                        *)
(* writeln!(Serial, ..).unwrap(): core::fmt::write hands the literal       *)
(* pieces of the format string and the output of each argument to          *)
(* Serial::write_str one after the other, and every write_str borrows PORT *)
(* for itself.                                                             *)

\* log! invocations the model lets one run make.
MaxLogs == 3

\* Most write_str calls the formatting of one argument makes.
MaxArgWrites == 2

\* The log! sites of main.rs: the non-empty literal pieces of the format
\* string, the trailing newline of writeln! included, and its arguments.
LogSites ==
    { [msg |-> "PANIC: ",                             pieces |-> 2, args |-> 1],
      [msg |-> "Error configuring block device",      pieces |-> 2, args |-> 1],
      [msg |-> "Virtio block device configured",      pieces |-> 2, args |-> 1],
      [msg |-> "Failed to find EFI partition",        pieces |-> 2, args |-> 1],
      [msg |-> "Found EFI partition",                 pieces |-> 1, args |-> 0],
      [msg |-> "Failed to create filesystem",         pieces |-> 2, args |-> 1],
      [msg |-> "Filesystem ready",                    pieces |-> 1, args |-> 0],
      [msg |-> "Jumping to kernel",                   pieces |-> 1, args |-> 0],
      [msg |-> "Error loading default entry",         pieces |-> 2, args |-> 1],
      [msg |-> "Using EFI boot.",                     pieces |-> 1, args |-> 0],
      [msg |-> "Failed to load default EFI binary",   pieces |-> 2, args |-> 1],
      [msg |-> "Found bootloader (BOOTX64.EFI)",      pieces |-> 1, args |-> 0],
      [msg |-> "Error loading executable",            pieces |-> 2, args |-> 1],
      [msg |-> "Executable loaded",                   pieces |-> 1, args |-> 0],
      [msg |-> "Booting with",                        pieces |-> 2, args |-> 1] }

firmware == <<coreboot, logPanic, bus, pc, idx, ret, load_info, panic_msg,
              bringup, calls, logged>>

\* serial::PORT.borrow_mut() ...        (rust64_start)
port_init_borrow ==
    /\ logpc = "start"
    /\ port' = IF port = "free" THEN "borrowed" ELSE port
    /\ logpc' = IF port = "free" THEN "port_init" ELSE "already_borrowed"
    /\ UNCHANGED <<firmware, cregs, live, log_site, frags, frag, log_count>>

\* ... .init();  the RefMut is dropped at the end of the statement.
port_init_release ==
    /\ logpc = "port_init"
    /\ port' = "free"
    /\ logpc' = "idle"
    /\ UNCHANGED <<firmware, cregs, live, log_site, frags, frag, log_count>>

\* log!(..) at one of the sites: writeln!(Serial, ..) starts formatting.
log_begin ==
    /\ logpc = "idle"
    /\ log_count < MaxLogs
    /\ \E site \in LogSites :
         \E n \in (site.pieces + site.args)..(site.pieces + site.args * MaxArgWrites) :
            /\ log_site' = site
            /\ frags' = n
    /\ frag' = 0
    /\ logpc' = "in_log"
    /\ UNCHANGED <<firmware, cregs, live, port, log_count>>

\* Serial::write_str: PORT.borrow_mut() ...   It panics if PORT is borrowed.
write_str_borrow ==
    /\ logpc = "in_log"
    /\ frag < frags
    /\ port' = IF port = "free" THEN "borrowed" ELSE port
    /\ logpc' = IF port = "free" THEN "write_str" ELSE "already_borrowed"
    /\ UNCHANGED <<firmware, cregs, live, log_site, frags, frag, log_count>>

\* write_str_release keeping the RefMut alive after write_str returned.
write_str_release_leaks ==
    /\ logpc = "write_str"
    /\ frag' = frag + 1
    /\ logpc' = "in_log"
    /\ UNCHANGED <<firmware, cregs, live, port, log_site, frags, log_count>>

\* ... .write_str(s)  the RefMut is dropped when write_str returns.
write_str_release ==
    /\ logpc = "write_str"
    /\ port' = "free"
    /\ frag' = frag + 1
    /\ logpc' = "in_log"
    /\ UNCHANGED <<firmware, cregs, live, log_site, frags, log_count>>

\* write_fmt returned Ok; .unwrap(); the log! invocation is over.
log_end ==
    /\ logpc = "in_log"
    /\ frag = frags
    /\ log_site' = NoSite
    /\ frags' = 0
    /\ frag' = 0
    /\ log_count' = log_count + 1
    /\ logpc' = "idle"
    /\ UNCHANGED <<firmware, cregs, live, port>>

LogNext ==
    \/ port_init_borrow \/ port_init_release
    \/ log_begin \/ write_str_borrow \/ write_str_release \/ log_end

\* The run as the serial module sees it, on a machine with an empty bus.
LogInit == Init /\ bus = <<>>

LogSpec == LogInit /\ [][LogNext]_vars

----------------------------------------------------------------------------
\* A log! invocation is in progress.
InLog == logpc \in {"in_log", "write_str"}

\* C14 as stated: PORT is held from the start to the end of one log!
\* invocation: once its first write_str has run and until its last one has,
\* the cell is borrowed.
C14_HeldThroughoutLog ==
    (InLog /\ 0 < frag /\ frag < frags) => port = "borrowed"

\* C14 amended: PORT is borrowed for the duration of each Serial::write_str
\* call and released when it returns, so one log! invocation borrows and
\* releases it once per piece it writes; the cell is borrowed at no other
\* time (not between log! invocations, not between the write_str calls of
\* one invocation) except during PORT's init in rust64_start, and it is never
\* borrowed while already borrowed.
C14_HeldPerWriteStr ==
    /\ port = "borrowed" <=> logpc \in {"write_str", "port_init"}
    /\ logpc # "already_borrowed"
    /\ logpc = "idle" => (port = "free" /\ log_site = NoSite)
    /\ InLog => (log_site \in LogSites /\ frag <= frags)

\* Inside a log! with an argument, between two of its write_str calls, with
\* the cell released.
C14_Witness ==
    /\ logpc = "in_log" /\ log_site.args = 1
    /\ 0 < frag /\ frag < frags
    /\ port = "free"
    /\ log_count > 0

----------------------------------------------------------------------------
(* Faults.  Any panic raised while the firmware runs (an unwrap() in log!, *)
(* a BorrowMutError, a panic inside a collaborator) enters the installed   *)
(* #[panic_handler], like the panic! at the end of main.                   *)

\* Positions at which the firmware itself is executing.
RunningPcs ==
    EntryPcs \cup DevicePcs \cup {"main", "print_bus", "with_devices", "scan_ret"}

fault ==
    /\ pc \in RunningPcs \ {"in_kernel", "in_efi"}
    /\ panic_msg' = "fault"
    /\ pc' = "panic"
    /\ UNCHANGED <<build, cregs, serial, live, idx, ret, load_info, bringup, calls,
                   logged>>

FaultNext == Next \/ fault

FaultSpec == Init /\ [][FaultNext]_vars

\* The panic handler has been entered.
InHandler == pc \in {"panic", "halt"}

\* C15: in both builds, once the panic handler is entered it never returns
\* and nothing of the boot happens any more (no collaborator call, no
\* bring-up step, no move of the scan); its one step logs "PANIC: <message>"
\* exactly when the build has log-panic and nothing otherwise, and then the
\* halt is never left.
C15_HandlerHaltsForGood ==
    /\ [][InHandler =>
            /\ pc' \in {"panic", "halt"}
            /\ calls' = calls /\ bringup' = bringup
            /\ idx' = idx /\ ret' = ret /\ panic_msg' = panic_msg]_vars
    /\ [][pc = "panic" =>
            /\ pc' = "halt"
            /\ logged' = IF logPanic
                           THEN Append(logged, Log(0, "PANIC: " \o panic_msg))
                           ELSE logged]_vars
    /\ [][pc = "halt" => (pc' = "halt" /\ logged' = logged)]_vars

\* A fault in the middle of an attempt on a device, in the build without
\* log-panic: halted with nothing logged about it.
C15_Witness ==
    /\ pc = "halt" /\ panic_msg = "fault" /\ ~logPanic
    /\ Called(1, "find_efi_partition") /\ ~Called(1, "Filesystem::new")
    /\ \A i \in 1..Len(logged) : logged[i].msg # "PANIC: fault"

----------------------------------------------------------------------------
\* The collaborator operations of one attempt, in the order of the claim.
AttemptOrder ==
    <<"init", "find_efi_partition", "Filesystem::new", "Filesystem::init",
      "load_default_entry", "open", "load", "efi_exec">>

IsStageCall(c) == \E k \in 1..Len(AttemptOrder) : c.op = AttemptOrder[k]

\* Those operations as they were called on slot d, in order.
StageCalls(d) == SelectSeq(calls, LAMBDA c : c.dev = d /\ IsStageCall(c))

\* C16: on every device the operations init, find_efi_partition,
\* Filesystem::new, Filesystem::init, load_default_entry, open, load, efi_exec
\* are called in exactly that order, without gap or repetition (so each at
\* most once and only after all earlier ones), and each only after its
\* predecessor succeeded, except open, which is called only after
\* load_default_entry failed.
C16_StagesInOrder ==
    \A d \in Slots :
        LET h == StageCalls(d) IN
        /\ Len(h) <= Len(AttemptOrder)
        /\ \A k \in 1..Len(h) :
              /\ h[k].op = AttemptOrder[k]
              /\ k > 1 => (h[k - 1].ok <=> (h[k].op # "open"))

\* An attempt that went through all eight operations.
C16_Witness ==
    \E d \in Slots :
        /\ Len(StageCalls(d)) = Len(AttemptOrder)
        /\ StageCalls(d)[Len(AttemptOrder)].op = "efi_exec"

----------------------------------------------------------------------------
\* Positions of the history at which op was called on slot d.
CallsOf(d, op) ==
    { i \in 1..Len(calls) : calls[i].dev = d /\ calls[i].op = op }

\* Positions between the construction of the device and the closure's end.
AttemptPcs == DevicePcs \ {"closure"}

\* C17: at most one BlockDevice exists at any time, and it is the one of the
\* slot under attempt; every attempted slot got one transport and one
\* BlockDevice of its own, constructed once, before anything else is called
\* on the slot; and an attempt starts from a clean slate whatever happened
\* on earlier slots: nothing called on the slot yet, no load result carried
\* over, no earlier device still alive.
C17_FreshDevicePerCandidate ==
    /\ Cardinality(live) <= 1
    /\ live = IF pc \in AttemptPcs THEN {idx} ELSE {}
    /\ \A d \in Slots :
          /\ Cardinality(CallsOf(d, "VirtioPciTransport::new")) <= 1
          /\ Cardinality(CallsOf(d, "VirtioBlockDevice::new")) <= 1
          /\ \A i \in 1..Len(calls) :
                (calls[i].dev = d /\ calls[i].op # "VirtioPciTransport::new") =>
                    \E j \in 1..(i - 1) :
                        /\ calls[j] = Call(d, "VirtioPciTransport::new", TRUE, <<>>)
                        /\ calls[j + 1] = Call(d, "VirtioBlockDevice::new", TRUE, <<>>)
    /\ pc = "init" =>
          /\ load_info = <<>> /\ ret = FALSE
          /\ \A i \in 1..Len(calls) :
                calls[i].dev = idx =>
                    calls[i].op \in {"VirtioPciTransport::new", "VirtioBlockDevice::new"}

\* The second match about to be initialized after the first was abandoned at
\* the PE load.
C17_Witness ==
    /\ pc = "init" /\ idx = 2 /\ live = {2}
    /\ CalledWith(1, "load", FALSE)

----------------------------------------------------------------------------
\* The stage at which the attempt on slot d stopped: its last stage call
\* failed, and it was not the default-entry loader.
FailedStage(d) ==
    LET h == StageCalls(d) IN
    /\ h # <<>>
    /\ ~h[Len(h)].ok
    /\ h[Len(h)].op # "load_default_entry"

\* C18: when boot_from_device has returned, its value is true exactly when a
\* control transfer (kernel.boot() or efi_exec) was invoked during the call
\* and came back, and false exactly when the attempt stopped at a failed
\* stage with no control transfer invoked.
C18_ReturnValue ==
    pc \in {"closure_ret", "scan_ret"} =>
        /\ ret = TRUE <=> Transferred(idx)
        /\ ret = FALSE <=> (FailedStage(idx) /\ ~Transferred(idx))
        /\ Transferred(idx) =>
              calls[Len(calls)].op \in {"kernel.boot", "efi_exec"}

\* boot_from_device returned true after kernel.boot() came back.
C18_Witness ==
    /\ pc = "closure_ret" /\ ret = TRUE
    /\ Called(idx, "kernel.boot")

----------------------------------------------------------------------------
\* C19: the halt with "Unable to boot from any virtio-blk device" is reached
\* only when every matching slot was attempted and abandoned at a failed
\* stage (vacuously with no match), and never when a control transfer was
\* invoked.
C19_FatalHaltOnlyAfterExhaustion ==
    (pc \in {"panic", "halt"} /\ panic_msg = FatalMsg) =>
        /\ Transfers = {}
        /\ \A d \in 1..Len(bus) :
              IsVirtioBlk(d) => (Called(d, "init") /\ FailedStage(d))

----------------------------------------------------------------------------
(* enable_sse on its own: any register contents at the call, and the call   *)
(* made more than once.                                                      *)

\* Calls of enable_sse made in a row.
MaxSseCalls == 2

\* Register bits the contents at the call are drawn from: flags enable_sse
\* touches, flags it does not, and one bit outside the named flags of each
\* register.
Cr0Sample == {0, MONITOR_COPROCESSOR, EMULATE_COPROCESSOR, 3, 31}
Cr4Sample == {5, OSFXSR, OSXMMEXCPT_ENABLE, 18, 23}

SseInit ==
    /\ FirmwareInit
    /\ coreboot = FALSE
    /\ logPanic = FALSE
    /\ bus = <<>>
    /\ cr0 \in SUBSET Cr0Sample
    /\ cr4 \in SUBSET Cr4Sample

\* enable_sse() called from any place, not only rust64_start.
enable_sse_call ==
    /\ Len(bringup) < MaxSseCalls
    /\ cr0' = enable_sse_cr0(cr0)
    /\ cr4' = enable_sse_cr4(cr4)
    /\ bringup' = Append(bringup, "enable_sse")
    /\ UNCHANGED <<build, serial, live, pc, idx, ret, load_info, panic_msg,
                   calls, logged>>

SseNext == enable_sse_call

SseSpec == SseInit /\ [][SseNext]_vars

\* C20: every call of enable_sse leaves CR0 with EMULATE_COPROCESSOR clear and
\* MONITOR_COPROCESSOR set, CR4 with OSFXSR and OSXMMEXCPT_ENABLE set, and
\* every other bit of both registers as it was; a call that follows another
\* changes nothing.
C20_EnableSseFrame ==
    [][ bringup' # bringup =>
          /\ EMULATE_COPROCESSOR \notin cr0'
          /\ MONITOR_COPROCESSOR \in cr0'
          /\ OSFXSR \in cr4'
          /\ OSXMMEXCPT_ENABLE \in cr4'
          /\ cr0' \ {EMULATE_COPROCESSOR, MONITOR_COPROCESSOR}
                = cr0 \ {EMULATE_COPROCESSOR, MONITOR_COPROCESSOR}
          /\ cr4' \ {OSFXSR, OSXMMEXCPT_ENABLE}
                = cr4 \ {OSFXSR, OSXMMEXCPT_ENABLE}
          /\ (Len(bringup) >= 1 => cr0' = cr0 /\ cr4' = cr4) ]_vars

\* enable_sse has run twice on registers holding bits it must keep, a named
\* flag and a reserved bit, and now holding the flags it sets.
C20_Witness ==
    /\ bringup = <<"enable_sse", "enable_sse">>
    /\ cr0 = {0, MONITOR_COPROCESSOR, 3, 31}
    /\ cr4 = {5, OSFXSR, OSXMMEXCPT_ENABLE, 18, 23}

====
